---- MODULE Spec2Model ----
(***************************************************************************)
(* The three replay buffers of phase_03_dqn/utils/replay_buffer.py:        *)
(* ReplayBuffer (uniform ring), PriortizedReplayBuffer (ring + priority    *)
(* array) and RainbowReplayBuffer (n-step window in front of the same      *)
(* priority store).  One behaviour constructs one buffer and then calls    *)
(* its methods, each call being one atomic step; SpecConcurrent alone runs  *)
(* PriortizedReplayBuffer.push line by line beside a second thread.        *)
(*                                                                         *)
(* Numbers: alpha, beta and beta_increment are kept in tenths (6 is 0.6),  *)
(* priorities are small naturals (float32 holds them exactly), a folded    *)
(* reward is an exact fraction <<numerator, denominator>>, an importance   *)
(* weight the exact power [num, den, exp] = (num / den) ** (exp / 100).    *)
(* Indices are 0-based as in the source; the sequences that hold the       *)
(* lists are 1-based, so list[i] is written At(list, i).                   *)
(***************************************************************************)
EXTENDS Integers, Sequences, FiniteSets, TLC

VARIABLES
    cls,             \* which class was constructed ("none" before __init__)
    capacity,        \* self.capacity
    alpha,           \* self.alpha           (tenths)
    beta,            \* self.beta            (tenths)
    beta_increment,  \* self.beta_increment  (tenths)
    nstep,           \* self.nstep
    buffer,          \* ReplayBuffer.buffer
    memory,          \* self.memory of the two priority buffers
    priorities,      \* self.priorities, a function on 0..capacity-1
    pos,             \* self.pos
    nstep_buffer,    \* RainbowReplayBuffer.nstep_buffer (deque, oldest first)
    pushes,          \* history: number of push calls made so far
    hist,            \* history: the transitions given to push, in call order
    ret,             \* the outcome of the last call
    lock,            \* the caller holds one lock around every call
    running          \* the push a second thread is inside, with its locals

vars == <<cls, capacity, alpha, beta, beta_increment, nstep, buffer, memory,
          priorities, pos, nstep_buffer, pushes, hist, ret, lock, running>>

----------------------------------------------------------------------------
(* Bounds of the model                                                     *)

MaxCap == 2
MaxNstep == 2
MaxPushes == 4
MaxBatch == 2
MaxUpd == 2

(* Program constants                                                       *)

None == -1
EpsilonInv == 100000

----------------------------------------------------------------------------
(* Input domains                                                           *)

CapVals == -1 .. MaxCap
NstepVals == -1 .. MaxNstep
AlphaVals == {6, 20}
BetaVals == {4, 15}
BetaIncVals == {3}
BatchVals == 0 .. MaxBatch
PriorVals == {0, 2}

\* the defaults of alpha and beta; a construction departs from them only
\* with capacity 1, which keeps the number of configurations small
Nominal(cap, a, b) == (a # 6 \/ b # 4) => cap = 1

\* update_priorities is given indices around both ends of the array
IdxVals(cap) == {-cap - 1, -1, 0, cap - 1, cap}

\* zip(indicies, new_prior): the (index, priority) pairs of one call, the
\* indices given in increasing order (-1 and cap - 1 name the same slot)
UpdLists(cap) ==
    UNION { { u \in [1 .. k -> IdxVals(cap) \X PriorVals] :
                \A i \in 1 .. k - 1 : u[i][1] < u[i + 1][1] } : k \in 0 .. MaxUpd }

\* (state, action, reward, next_state, done) as the environment produces them
Transitions ==
    { <<1, 0, 1, 2, FALSE>>, <<2, 1, 2, 3, TRUE>> }

\* PriortizedReplayBuffer never reads a field of a transition: its k-th push is
\* given the k-th transition of a stream of pairwise distinct transitions
Env(k) == <<k, k % 2, k, k + 1, k % 2 = 0>>

NextActions == {0, 1}

\* RainbowReplayBuffer reads reward and done: its k-th push is given state k,
\* one of these rewards, and an episode that ends at every third step
RewardVals == {1}

RainbowInputs(k) == { <<k, k % 2, r, k + 1, k % 3 = 0>> : r \in RewardVals }

----------------------------------------------------------------------------
(* Helpers                                                                 *)

Min(a, b) == IF a <= b THEN a ELSE b

SetMax(S) == CHOOSE m \in S : \A x \in S : x <= m

At(list, i) == list[i + 1]

SetAt(list, i, v) == [list EXCEPT ![i + 1] = v]

Range(s) == { s[i] : i \in 1 .. Len(s) }

\* the sequences of k pairwise distinct elements of S
Distinct(S, k) == { s \in [1 .. k -> S] : \A i, j \in 1 .. k : i # j => s[i] # s[j] }

\* the outcome of a call: the method, how it ended ("ok" or the exception
\* raised), its batch_size argument (0 for the other methods), the indices
\* drawn or given, and the batch returned
Outcome(op, status, arg, indices, batch) ==
    [op |-> op, status |-> status, arg |-> arg, indices |-> indices, batch |-> batch,
     weights |-> <<>>]

----------------------------------------------------------------------------
(* Construction                                                            *)

\* no push is in progress
Idle == [pc |-> "idle", max_prior |-> 0]

\* the state before construction, but for the locking discipline
NotConstructed ==
    /\ cls = "none"
    /\ capacity = 0
    /\ alpha = 0
    /\ beta = 0
    /\ beta_increment = 0
    /\ nstep = 0
    /\ buffer = <<>>
    /\ memory = <<>>
    /\ priorities = <<>>
    /\ pos = 0
    /\ nstep_buffer = <<>>
    /\ pushes = 0
    /\ hist = <<>>
    /\ ret = Outcome("none", "ok", 0, <<>>, <<>>)
    /\ running = Idle

\* one thread: every call runs from its first line to its last
Init == NotConstructed /\ lock = FALSE

\* two threads, which the caller serializes with a lock or does not
InitConcurrent == NotConstructed /\ lock \in BOOLEAN

\* ReplayBuffer.__init__: stores its arguments, validates nothing
ReplayBuffer_init(cap) ==
    /\ cls = "none"
    /\ UNCHANGED <<lock, running>>
    /\ cls' = "ReplayBuffer"
    /\ capacity' = cap
    /\ buffer' = <<>>
    /\ pos' = 0
    /\ ret' = Outcome("init", "ok", 0, <<>>, <<>>)
    /\ UNCHANGED <<alpha, beta, beta_increment, nstep, memory, priorities,
                   nstep_buffer, pushes, hist>>

----------------------------------------------------------------------------
(* ReplayBuffer                                                            *)

\* next_pos that wraps one slot early
next_pos_early(p, cap) == IF p + 2 >= cap THEN 0 ELSE p + 1

\* self.pos = (self.pos + 1) % self.capacity
next_pos(p, cap) == (p + 1) % cap

\* if len(self.buffer) < self.capacity: self.buffer.append(None)
grow(buf, cap) == IF Len(buf) < cap THEN Append(buf, None) ELSE buf

\* push raises IndexError when the list has no slot pos (capacity <= 0)
ReplayBuffer_push(t) ==
    /\ cls = "ReplayBuffer"
    /\ UNCHANGED <<lock, running>>
    /\ pushes < MaxPushes
    /\ pushes' = pushes + 1
    /\ hist' = Append(hist, t)
    /\ LET grown == grow(buffer, capacity)
       IN  IF pos < Len(grown)
           THEN /\ buffer' = SetAt(grown, pos, t)
                /\ pos' = next_pos(pos, capacity)
                /\ ret' = Outcome("push", "ok", 0, <<>>, <<>>)
           ELSE /\ UNCHANGED <<buffer, pos>>
                /\ ret' = Outcome("push", "IndexError", 0, <<>>, <<>>)
    /\ UNCHANGED <<cls, capacity, alpha, beta, beta_increment, nstep, memory,
                   priorities, nstep_buffer>>

\* random_sample drawing with replacement, as random.choices does
random_sample_replace(n, k) == IF n = 0 THEN {} ELSE [1 .. k -> 0 .. n - 1]

\* random.sample(population, k): the lists of k distinct positions it can
\* return, in any order; the empty set when it raises ValueError (k > n)
random_sample(n, k) == IF k > n THEN {} ELSE Distinct(0 .. n - 1, k)

\* zip(*batch), which raises ValueError on an empty batch, and the tensors
\* built from it; next_actions is built from actions
ReplayBuffer_collate(batch) ==
    [i \in 1 .. Len(batch) |->
        <<batch[i][1], batch[i][2], batch[i][3], batch[i][4], batch[i][5], batch[i][2]>>]

ReplayBuffer_sample(batch_size) ==
    /\ cls = "ReplayBuffer"
    /\ UNCHANGED <<lock, running>>
    /\ LET draws == random_sample(Len(buffer), batch_size)
       IN  IF draws = {} \/ batch_size = 0
           THEN ret' = Outcome("sample", "ValueError", batch_size, <<>>, <<>>)
           ELSE \E idx \in draws :
                   ret' = Outcome("sample", "ok", batch_size, idx,
                             ReplayBuffer_collate(
                                 [i \in 1 .. batch_size |-> At(buffer, idx[i])]))
    /\ UNCHANGED <<cls, capacity, alpha, beta, beta_increment, nstep, buffer, memory,
                   priorities, pos, nstep_buffer, pushes, hist>>

ReplayBuffer_len == Len(buffer)

----------------------------------------------------------------------------
(* PriortizedReplayBuffer                                                  *)

\* np.zeros((capacity,)) raises ValueError for a negative capacity;
\* alpha, beta and the increment are stored as given
PriortizedReplayBuffer_init(cap, a, b, inc) ==
    /\ cls = "none"
    /\ UNCHANGED <<lock, running>>
    /\ IF cap < 0
       THEN /\ ret' = Outcome("init", "ValueError", 0, <<>>, <<>>)
            /\ UNCHANGED <<cls, capacity, alpha, beta, beta_increment, memory,
                           priorities, pos>>
       ELSE /\ cls' = "PriortizedReplayBuffer"
            /\ capacity' = cap
            /\ alpha' = a
            /\ beta' = b
            /\ beta_increment' = inc
            /\ memory' = <<>>
            /\ priorities' = [i \in 1 .. cap |-> 0]
            /\ pos' = 0
            /\ ret' = Outcome("init", "ok", 0, <<>>, <<>>)
    /\ UNCHANGED <<nstep, buffer, nstep_buffer, pushes, hist>>

\* max_prior that forgets the priorities already stored
max_prior_one(mem, prios) == 1

\* self.priorities.max() if self.memory else 1.0
max_prior(mem, prios) == IF mem # <<>> THEN SetMax(Range(prios)) ELSE 1

\* ring_write without the capacity test: the list grows on every push
ring_write_unbounded(mem, cap, p, t) == Append(mem, t)

\* append while under capacity, else overwrite slot pos
ring_write(mem, cap, p, t) ==
    IF Len(mem) < cap THEN Append(mem, t) ELSE SetAt(mem, p, t)

\* push raises IndexError when it overwrites a slot the list lacks (capacity 0)
PriortizedReplayBuffer_push(t) ==
    /\ cls = "PriortizedReplayBuffer"
    /\ UNCHANGED <<lock, running>>
    /\ pushes < MaxPushes
    /\ pushes' = pushes + 1
    /\ hist' = Append(hist, t)
    /\ IF Len(memory) < capacity \/ pos < Len(memory)
       THEN /\ memory' = ring_write(memory, capacity, pos, t)
            /\ priorities' = SetAt(priorities, pos, max_prior(memory, priorities))
            /\ pos' = next_pos(pos, capacity)
            /\ ret' = Outcome("push", "ok", 0, <<>>, <<>>)
       ELSE /\ UNCHANGED <<memory, priorities, pos>>
            /\ ret' = Outcome("push", "IndexError", 0, <<>>, <<>>)
    /\ UNCHANGED <<cls, capacity, alpha, beta, beta_increment, nstep, buffer,
                   nstep_buffer>>

\* the whole priority array, whether the buffer is full or not
priorties_whole(mem, prios, cap, p) == prios

\* the priorities sample normalizes: the whole array when full, else [:pos]
priorties(mem, prios, cap, p) ==
    IF Len(mem) = cap THEN prios ELSE SubSeq(prios, 1, Min(p, Len(prios)))

\* the indices probs gives a positive probability: (p + epsilon) ** alpha > 0
Drawable(prs) == { i \in 0 .. Len(prs) - 1 : At(prs, i) * EpsilonInv + 1 > 0 }

\* np.random.choice(a, size, p=probs): the arrays of size draws it can return,
\* with replacement; the empty set when it raises ValueError
np_random_choice(a, size, prs) ==
    IF a <= 0 \/ Len(prs) # a THEN {} ELSE [1 .. size -> Drawable(prs)]

\* (priorities[i] + epsilon) in units of epsilon; probs[i] is its power alpha
\* over the sum of these powers
scaled(prs, i) == At(prs, i) * EpsilonInv + 1

\* weights.max() taken at the first draw instead of the largest weight
weights_max_first(prs, indices, a, b) == indices[1]

\* weights.max(): a draw whose (total * probs[i]) ** (-beta) is largest, the
\* least (priority + epsilon) for alpha * beta >= 0 and the greatest otherwise
weights_max(prs, indices, a, b) ==
    CHOOSE m \in Range(indices) :
        \A j \in Range(indices) :
            IF a * b >= 0 THEN scaled(prs, m) <= scaled(prs, j)
                          ELSE scaled(prs, j) <= scaled(prs, m)

\* the importance weights after weights /= weights.max(): for the draw i and
\* the heaviest draw m the quotient of (total * probs) ** (-beta) is
\* (scaled m / scaled i) ** (alpha * beta), kept as [num, den, exp] with the
\* exponent in hundredths
is_weights(prs, indices, a, b) ==
    LET m == weights_max(prs, indices, a, b)
    IN  [k \in DOMAIN indices |->
            [num |-> scaled(prs, m), den |-> scaled(prs, indices[k]), exp |-> a * b]]

\* beta advanced without the bound
anneal_unclamped(b, inc) == b + inc

\* self.beta = min(1.0, self.beta + self.beta_increment)
anneal(b, inc) == Min(10, b + inc)

\* sample that advances beta on entry, before the draw can raise
PriortizedReplayBuffer_sample_eager(batch_size) ==
    /\ cls = "PriortizedReplayBuffer"
    /\ UNCHANGED <<lock, running>>
    /\ beta' = anneal(beta, beta_increment)
    /\ LET draws == np_random_choice(Len(memory), batch_size,
                                     priorties(memory, priorities, capacity, pos))
       IN  IF draws = {} \/ batch_size = 0
           THEN ret' = Outcome("sample", "ValueError", batch_size, <<>>, <<>>)
           ELSE \E indices \in draws :
                    ret' = [Outcome("sample", "ok", batch_size, indices,
                              [i \in 1 .. batch_size |-> At(memory, indices[i])])
                            EXCEPT !.weights =
                                is_weights(priorties(memory, priorities, capacity, pos),
                                           indices, alpha, beta)]
    /\ UNCHANGED <<cls, capacity, alpha, beta_increment, nstep, buffer, memory,
                   priorities, pos, nstep_buffer, pushes, hist>>

PriortizedReplayBuffer_sample(batch_size) ==
    /\ cls = "PriortizedReplayBuffer"
    /\ UNCHANGED <<lock, running>>
    /\ LET draws == np_random_choice(Len(memory), batch_size,
                                     priorties(memory, priorities, capacity, pos))
       IN  IF draws = {} \/ batch_size = 0
           THEN /\ ret' = Outcome("sample", "ValueError", batch_size, <<>>, <<>>)
                /\ UNCHANGED beta
           ELSE /\ \E indices \in draws :
                      ret' = [Outcome("sample", "ok", batch_size, indices,
                                [i \in 1 .. batch_size |-> At(memory, indices[i])])
                              EXCEPT !.weights =
                                  is_weights(priorties(memory, priorities, capacity, pos),
                                             indices, alpha, beta)]
                /\ beta' = anneal(beta, beta_increment)
    /\ UNCHANGED <<cls, capacity, alpha, beta_increment, nstep, buffer, memory,
                   priorities, pos, nstep_buffer, pushes, hist>>

\* numpy indexing of an array of length n: -n .. -1 count from the end
InRange(idx, n) == -n <= idx /\ idx < n

Wrap(idx, n) == IF idx < 0 THEN idx + n ELSE idx

\* the loop of update_priorities: writes pair after pair and stops, keeping
\* what it wrote, at the first index numpy rejects
RECURSIVE write_all(_, _)
write_all(prios, upd) ==
    IF upd = <<>>
    THEN [priorities |-> prios, status |-> "ok"]
    ELSE IF InRange(upd[1][1], Len(prios))
         THEN write_all(SetAt(prios, Wrap(upd[1][1], Len(prios)), upd[1][2]), Tail(upd))
         ELSE [priorities |-> prios, status |-> "IndexError"]

PriortizedReplayBuffer_update_priorities(upd) ==
    /\ cls = "PriortizedReplayBuffer"
    /\ UNCHANGED <<lock, running>>
    /\ LET r == write_all(priorities, upd)
       IN  /\ priorities' = r.priorities
           /\ ret' = Outcome("update_priorities", r.status, 0,
                             [i \in 1 .. Len(upd) |-> upd[i][1]], <<>>)
    /\ UNCHANGED <<cls, capacity, alpha, beta, beta_increment, nstep, buffer, memory,
                   pos, nstep_buffer, pushes, hist>>

PriortizedReplayBuffer_len == Len(memory)

----------------------------------------------------------------------------
(* RainbowReplayBuffer                                                     *)

\* np.zeros raises ValueError for a negative capacity, deque(maxlen=nstep)
\* for a negative nstep
RainbowReplayBuffer_init(cap, n, a, b, inc) ==
    /\ cls = "none"
    /\ UNCHANGED <<lock, running>>
    /\ IF cap < 0 \/ n < 0
       THEN /\ ret' = Outcome("init", "ValueError", 0, <<>>, <<>>)
            /\ UNCHANGED <<cls, capacity, alpha, beta, beta_increment, nstep, memory,
                           priorities, pos, nstep_buffer>>
       ELSE /\ cls' = "RainbowReplayBuffer"
            /\ capacity' = cap
            /\ alpha' = a
            /\ beta' = b
            /\ beta_increment' = inc
            /\ memory' = <<>>
            /\ priorities' = [i \in 1 .. cap |-> 0]
            /\ pos' = 0
            /\ nstep' = n
            /\ nstep_buffer' = <<>>
            /\ ret' = Outcome("init", "ok", 0, <<>>, <<>>)
    /\ UNCHANGED <<buffer, pushes, hist>>

\* a deque without maxlen: nothing is ever dropped
deque_append_unbounded(dq, t, maxlen) == Append(dq, t)

\* deque(maxlen=n).append(t): drops the oldest entry of a full deque
deque_append(dq, t, maxlen) ==
    IF maxlen = 0 THEN dq
    ELSE IF Len(dq) = maxlen THEN Append(Tail(dq), t)
    ELSE Append(dq, t)

\* one step of the loop of _get_nstep_info over transition, acc = (reward,
\* next_state, done), the reward a fraction <<numerator, denominator>>:
\*   reward = transition[2] + self.alpha * reward * (1 - transition[4])
\*   next_state, done = (n_s, d) if d else (next_state, done)
fold_step(transition, acc, a) ==
    <<  << transition[3] * acc[1][2] * 10
             + a * acc[1][1] * (IF transition[5] THEN 0 ELSE 1),
           acc[1][2] * 10 >>,
        IF transition[5] THEN transition[4] ELSE acc[2],
        IF transition[5] THEN transition[5] ELSE acc[3] >>

\* the loop over reversed(list(window)[:-1]), most recent entry first
RECURSIVE fold_from(_, _, _, _)
fold_from(window, i, acc, a) ==
    IF i < 1 THEN acc ELSE fold_from(window, i - 1, fold_step(window[i], acc, a), a)

\* _get_nstep_info: (reward, next_state, done) of the window
get_nstep_info(window, a) ==
    LET last == window[Len(window)]
    IN  fold_from(window, Len(window) - 1, << <<last[3], 1>>, last[4], last[5] >>, a)

\* the nstep argument of push is never read, the window depth is self.nstep;
\* push raises IndexError on an empty window (nstep 0) and on capacity 0
RainbowReplayBuffer_push(nstep_arg, t) ==
    /\ cls = "RainbowReplayBuffer"
    /\ UNCHANGED <<lock, running>>
    /\ pushes < MaxPushes
    /\ pushes' = pushes + 1
    /\ hist' = Append(hist, t)
    /\ nstep_buffer' = deque_append(nstep_buffer, t, nstep)
    /\ LET window == deque_append(nstep_buffer, t, nstep)
           info == get_nstep_info(window, alpha)
           data == <<window[1][1], window[1][2], info[1], info[2], t[5]>>
       IN  IF Len(window) < nstep
           THEN /\ ret' = Outcome("push", "ok", 0, <<>>, <<>>)
                /\ UNCHANGED <<memory, priorities, pos>>
           ELSE IF window # <<>> /\ (Len(memory) < capacity \/ pos < Len(memory))
           THEN /\ memory' = ring_write(memory, capacity, pos, data)
                /\ priorities' = SetAt(priorities, pos, max_prior(memory, priorities))
                /\ pos' = next_pos(pos, capacity)
                /\ ret' = Outcome("push", "ok", 0, <<>>, <<>>)
           ELSE /\ UNCHANGED <<memory, priorities, pos>>
                /\ ret' = Outcome("push", "IndexError", 0, <<>>, <<>>)
    /\ UNCHANGED <<cls, capacity, alpha, beta, beta_increment, nstep, buffer>>

RainbowReplayBuffer_sample(batch_size) ==
    /\ cls = "RainbowReplayBuffer"
    /\ UNCHANGED <<lock, running>>
    /\ LET draws == np_random_choice(Len(memory), batch_size,
                                     priorties(memory, priorities, capacity, pos))
       IN  IF draws = {} \/ batch_size = 0
           THEN /\ ret' = Outcome("sample", "ValueError", batch_size, <<>>, <<>>)
                /\ UNCHANGED beta
           ELSE /\ \E indices \in draws :
                      ret' = [Outcome("sample", "ok", batch_size, indices,
                                [i \in 1 .. batch_size |-> At(memory, indices[i])])
                              EXCEPT !.weights =
                                  is_weights(priorties(memory, priorities, capacity, pos),
                                             indices, alpha, beta)]
                /\ beta' = anneal(beta, beta_increment)
    /\ UNCHANGED <<cls, capacity, alpha, beta_increment, nstep, buffer, memory,
                   priorities, pos, nstep_buffer, pushes, hist>>

\* update_priorities that accepts the call and writes no priority
RainbowReplayBuffer_update_priorities_skip(upd) ==
    /\ cls = "RainbowReplayBuffer"
    /\ UNCHANGED <<lock, running>>
    /\ ret' = Outcome("update_priorities", "ok", 0,
                      [i \in 1 .. Len(upd) |-> upd[i][1]], <<>>)
    /\ UNCHANGED <<cls, capacity, alpha, beta, beta_increment, nstep, buffer, memory,
                   priorities, pos, nstep_buffer, pushes, hist>>

RainbowReplayBuffer_update_priorities(upd) ==
    /\ cls = "RainbowReplayBuffer"
    /\ UNCHANGED <<lock, running>>
    /\ LET r == write_all(priorities, upd)
       IN  /\ priorities' = r.priorities
           /\ ret' = Outcome("update_priorities", r.status, 0,
                             [i \in 1 .. Len(upd) |-> upd[i][1]], <<>>)
    /\ UNCHANGED <<cls, capacity, alpha, beta, beta_increment, nstep, buffer, memory,
                   pos, nstep_buffer, pushes, hist>>

RainbowReplayBuffer_len == Len(memory)

----------------------------------------------------------------------------

NextUniform ==
    \/ \E cap \in CapVals : ReplayBuffer_init(cap)
    \/ \E t \in Transitions, na \in NextActions : ReplayBuffer_push(t \o <<na>>)
    \/ \E b \in BatchVals : ReplayBuffer_sample(b)

NextPriority ==
    \/ \E cap \in CapVals, a \in AlphaVals, b \in BetaVals, inc \in BetaIncVals :
          Nominal(cap, a, b) /\ PriortizedReplayBuffer_init(cap, a, b, inc)
    \/ PriortizedReplayBuffer_push(Env(pushes + 1))
    \/ \E b \in BatchVals : PriortizedReplayBuffer_sample(b)
    \/ \E upd \in UpdLists(capacity) : PriortizedReplayBuffer_update_priorities(upd)

NextRainbow ==
    \/ \E cap \in CapVals, n \in NstepVals, a \in AlphaVals, b \in BetaVals,
          inc \in BetaIncVals :
          Nominal(cap, a, b) /\ RainbowReplayBuffer_init(cap, n, a, b, inc)
    \/ \E n \in {nstep, nstep + 1}, t \in RainbowInputs(pushes + 1) :
          RainbowReplayBuffer_push(n, t)
    \/ \E b \in BatchVals : RainbowReplayBuffer_sample(b)
    \/ \E upd \in UpdLists(capacity) : RainbowReplayBuffer_update_priorities(upd)

Next == NextUniform \/ NextPriority \/ NextRainbow

Spec == Init /\ [][Next]_vars

SpecUniform == Init /\ [][NextUniform]_vars

SpecPriority == Init /\ [][NextPriority]_vars

SpecRainbow == Init /\ [][NextRainbow]_vars

SpecRing == Init /\ [][NextUniform \/ NextPriority]_vars

\* the update lists whose indices all lie in [0, capacity)
InCapacityLists ==
    { u \in UpdLists(capacity) : \A i \in 1 .. Len(u) : u[i][1] \in 0 .. capacity - 1 }

\* a PriortizedReplayBuffer whose caller keeps the indices inside the array
NextInCapacity ==
    \/ \E cap \in CapVals, a \in AlphaVals, b \in BetaVals, inc \in BetaIncVals :
          Nominal(cap, a, b) /\ PriortizedReplayBuffer_init(cap, a, b, inc)
    \/ PriortizedReplayBuffer_push(Env(pushes + 1))
    \/ \E b \in BatchVals : PriortizedReplayBuffer_sample(b)
    \/ \E upd \in InCapacityLists : PriortizedReplayBuffer_update_priorities(upd)

SpecInCapacity == Init /\ [][NextInCapacity]_vars

\* update lists over one index numpy wraps, one it takes as given and one it
\* rejects
EdgeLists ==
    { u \in UpdLists(capacity) : \A i \in 1 .. Len(u) : u[i][1] \in {-1, 0, capacity} }

\* the two prioritized classes side by side
NextPER ==
    \/ \E cap \in CapVals, a \in AlphaVals, b \in BetaVals, inc \in BetaIncVals :
          Nominal(cap, a, b) /\ PriortizedReplayBuffer_init(cap, a, b, inc)
    \/ \E cap \in CapVals, n \in NstepVals, a \in AlphaVals, b \in BetaVals,
          inc \in BetaIncVals :
          Nominal(cap, a, b) /\ RainbowReplayBuffer_init(cap, n, a, b, inc)
    \/ PriortizedReplayBuffer_push(Env(pushes + 1))
    \/ \E n \in {nstep, nstep + 1}, t \in RainbowInputs(pushes + 1) :
          RainbowReplayBuffer_push(n, t)
    \/ \E b \in BatchVals : PriortizedReplayBuffer_sample(b)
    \/ \E b \in BatchVals : RainbowReplayBuffer_sample(b)
    \/ \E upd \in EdgeLists : PriortizedReplayBuffer_update_priorities(upd)
    \/ \E upd \in EdgeLists : RainbowReplayBuffer_update_priorities(upd)

SpecPER == Init /\ [][NextPER]_vars

----------------------------------------------------------------------------
(* PriortizedReplayBuffer.push line by line, with a second thread          *)

\* lines 49-54: max_prior is read, then the transition enters self.memory
PriortizedReplayBuffer_push_append(t) ==
    /\ cls = "PriortizedReplayBuffer"
    /\ running.pc = "idle"
    /\ pushes < MaxPushes
    /\ pushes' = pushes + 1
    /\ hist' = Append(hist, t)
    /\ IF Len(memory) < capacity \/ pos < Len(memory)
       THEN /\ memory' = ring_write(memory, capacity, pos, t)
            /\ running' = [pc |-> "appended", max_prior |-> max_prior(memory, priorities)]
            /\ ret' = Outcome("push", "running", 0, <<>>, <<>>)
       ELSE /\ UNCHANGED <<memory, running>>
            /\ ret' = Outcome("push", "IndexError", 0, <<>>, <<>>)
    /\ UNCHANGED <<cls, capacity, alpha, beta, beta_increment, nstep, buffer,
                   priorities, pos, nstep_buffer, lock>>

\* line 56: self.priorities[self.pos] = max_prior
PriortizedReplayBuffer_push_priority ==
    /\ cls = "PriortizedReplayBuffer"
    /\ running.pc = "appended"
    /\ priorities' = SetAt(priorities, pos, running.max_prior)
    /\ running' = [running EXCEPT !.pc = "written"]
    /\ UNCHANGED <<cls, capacity, alpha, beta, beta_increment, nstep, buffer, memory,
                   pos, nstep_buffer, pushes, hist, ret, lock>>

\* line 57: self.pos = (self.pos + 1) % self.capacity, and push returns
PriortizedReplayBuffer_push_advance ==
    /\ cls = "PriortizedReplayBuffer"
    /\ running.pc = "written"
    /\ pos' = next_pos(pos, capacity)
    /\ running' = Idle
    /\ ret' = Outcome("push", "ok", 0, <<>>, <<>>)
    /\ UNCHANGED <<cls, capacity, alpha, beta, beta_increment, nstep, buffer, memory,
                   priorities, nstep_buffer, pushes, hist, lock>>

\* under the lock a call starts only when no push is in progress
Exclusive == lock => running.pc = "idle"

\* one thread pushes, the other samples and updates
NextConcurrent ==
    \/ \E cap \in CapVals, a \in AlphaVals, b \in BetaVals, inc \in BetaIncVals :
          Nominal(cap, a, b) /\ PriortizedReplayBuffer_init(cap, a, b, inc)
    \/ PriortizedReplayBuffer_push_append(Env(pushes + 1))
    \/ PriortizedReplayBuffer_push_priority
    \/ PriortizedReplayBuffer_push_advance
    \/ \E b \in BatchVals : Exclusive /\ PriortizedReplayBuffer_sample(b)
    \/ \E upd \in InCapacityLists :
          Exclusive /\ PriortizedReplayBuffer_update_priorities(upd)

SpecConcurrent == InitConcurrent /\ [][NextConcurrent]_vars

\* the update lists whose indices all name a slot that holds a transition
InRangeLists ==
    { u \in UpdLists(capacity) : \A i \in 1 .. Len(u) : u[i][1] \in 0 .. Len(memory) - 1 }

\* a PriortizedReplayBuffer whose caller reports priorities for valid slots only
NextInRange ==
    \/ \E cap \in CapVals, a \in AlphaVals, b \in BetaVals, inc \in BetaIncVals :
          Nominal(cap, a, b) /\ PriortizedReplayBuffer_init(cap, a, b, inc)
    \/ PriortizedReplayBuffer_push(Env(pushes + 1))
    \/ \E b \in BatchVals : PriortizedReplayBuffer_sample(b)
    \/ \E upd \in InRangeLists : PriortizedReplayBuffer_update_priorities(upd)

SpecInRange == Init /\ [][NextInRange]_vars

----------------------------------------------------------------------------
(* Properties                                                              *)

Ring == cls \in {"ReplayBuffer", "PriortizedReplayBuffer"}

\* the list that holds the transitions, and len() of the buffer
Store == IF cls = "ReplayBuffer" THEN buffer ELSE memory

BufferLen ==
    IF cls = "ReplayBuffer" THEN ReplayBuffer_len
    ELSE IF cls = "PriortizedReplayBuffer" THEN PriortizedReplayBuffer_len
    ELSE RainbowReplayBuffer_len

NoDuplicates(seq) == \A i, j \in 1 .. Len(seq) : i # j => seq[i] # seq[j]

\* the number of the last of k pushes that went to slot i of a ring of cap slots
LastPushTo(i, k, cap) == SetMax({ j \in 1 .. k : (j - 1) % cap = i })

\* C1: for ReplayBuffer and PriortizedReplayBuffer with capacity >= 1, after
\* k push calls interleaved with any sample and update_priorities calls,
\* len() equals min(k, capacity).
C1_LenIsMinPushesCapacity ==
    (Ring /\ capacity >= 1) => BufferLen = Min(pushes, capacity)

\* a full PriortizedReplayBuffer that has been pushed to more often than it
\* has slots, after an update_priorities call
C1_Witness ==
    /\ cls = "PriortizedReplayBuffer"
    /\ capacity = 2
    /\ pushes = 4
    /\ PriortizedReplayBuffer_len = 2
    /\ ret.op = "update_priorities"

\* C2: ring discipline of push: after k pushes pos = k mod capacity, pos
\* equals len() while the store is not full, slot i holds the last push that
\* went to slot i (the k-th push goes to slot (k-1) mod capacity), and the
\* store holds exactly the last min(k, capacity) pushed transitions.
C2_RingDiscipline ==
    (Ring /\ capacity >= 1) =>
        /\ pos = pushes % capacity
        /\ Len(Store) < capacity => pos = Len(Store)
        /\ Len(Store) = Min(pushes, capacity)
        /\ \A i \in 0 .. Len(Store) - 1 :
              At(Store, i) = hist[LastPushTo(i, pushes, capacity)]
        /\ Range(Store) = { hist[j] : j \in pushes - Min(pushes, capacity) + 1 .. pushes }
        /\ (cls = "PriortizedReplayBuffer" /\ pushes > capacity) =>
              hist[1] \notin Range(Store)

\* capacity + 1 pushes into a ReplayBuffer of two slots: the last push is in
\* slot 0 and slot 1 still holds the second
C2_Witness ==
    /\ cls = "ReplayBuffer"
    /\ capacity = 2
    /\ pushes = 3
    /\ pos = 1
    /\ At(buffer, 0) = hist[3]
    /\ At(buffer, 1) = hist[2]
    /\ hist[1] # hist[3]

\* C3: PriortizedReplayBuffer.sample(batch_size) fails, returning no batch,
\* whenever batch_size exceeds len().
C3_SampleBeyondLenFails ==
    (cls = "PriortizedReplayBuffer" /\ ret.op = "sample"
        /\ ret.arg > PriortizedReplayBuffer_len) => ret.status # "ok"

\* C4: ReplayBuffer.sample(batch_size) with batch_size > len() fails with an
\* error and leaves the buffer contents and pos unchanged.
C4_UniformSampleBeyondLenFails ==
    [][(cls = "ReplayBuffer" /\ ret'.op = "sample" /\ ret'.arg > ReplayBuffer_len)
          => (ret'.status = "ValueError" /\ ret'.batch = <<>>
                /\ buffer' = buffer /\ pos' = pos)]_vars

\* a ReplayBuffer holding one transition was asked for more and raised
C4_Witness ==
    /\ cls = "ReplayBuffer"
    /\ ret.op = "sample"
    /\ ret.status = "ValueError"
    /\ ReplayBuffer_len = 1
    /\ ret.arg = 2

\* a sample that returned: batch_size indices into the store, and the
\* transitions of those slots
Returned(store) ==
    /\ Len(ret.indices) = ret.arg
    /\ Len(ret.batch) = ret.arg
    /\ \A i \in 1 .. ret.arg :
          /\ ret.indices[i] \in 0 .. Len(store) - 1
          /\ \A f \in 1 .. 5 : ret.batch[i][f] = At(store, ret.indices[i])[f]

ValidMax == SetMax({ At(priorities, i) : i \in 0 .. Len(memory) - 1 })

\* C6: in a PriortizedReplayBuffer whose update indices lie in [0, len()), the
\* priority a push stores is the maximum priority of the valid slots before
\* the push, or 1.0 when the buffer was empty, and it is stored at the index
\* the transition is stored at; no other priority changes.
C6_PushStoresMaxValidPriority ==
    [][(cls = "PriortizedReplayBuffer" /\ pushes' = pushes + 1 /\ ret'.status = "ok")
          => /\ At(priorities', pos) = (IF memory = <<>> THEN 1 ELSE ValidMax)
             /\ At(memory', pos) = hist'[pushes']
             /\ \A i \in 0 .. capacity - 1 :
                   i # pos => At(priorities', i) = At(priorities, i)]_vars

\* the third push into two slots of priorities (2, 0) overwrote slot 0 and
\* stored the maximum, 2, for it
C6_Witness ==
    /\ cls = "PriortizedReplayBuffer"
    /\ capacity = 2
    /\ pushes = 3
    /\ ret.op = "push"
    /\ priorities = <<2, 0>>
    /\ At(memory, 0) = hist[3]

\* C7: update_priorities of PriortizedReplayBuffer and RainbowReplayBuffer
\* fails with an index error whenever a given index lies outside
\* [0, capacity), negative indices included.
C7_UpdateOutsideCapacityFails ==
    (cls \in {"PriortizedReplayBuffer", "RainbowReplayBuffer"}
        /\ ret.op = "update_priorities"
        /\ \E i \in 1 .. Len(ret.indices) : ret.indices[i] \notin 0 .. capacity - 1)
    => ret.status = "IndexError"

\* C8: an update_priorities call that fails on an out-of-range index has
\* modified no priority slot.
C8_FailedUpdateWritesNothing ==
    [][(cls = "PriortizedReplayBuffer" /\ ret'.op = "update_priorities"
          /\ ret'.status = "IndexError") => priorities' = priorities]_vars

\* C9: no buffer exists with a non-positive capacity, a non-positive nstep, or
\* alpha or beta outside [0, 1]: construction rejects them.
C9_BadConfigurationRejected ==
    cls # "none" =>
        /\ capacity >= 1
        /\ cls = "RainbowReplayBuffer" => nstep >= 1
        /\ cls \in {"PriortizedReplayBuffer", "RainbowReplayBuffer"} =>
              (alpha \in 0 .. 10 /\ beta \in 0 .. 10)

Max(a, b) == IF a >= b THEN a ELSE b

\* C10: in a RainbowReplayBuffer with nstep >= 1, after k pushes len() is
\* min(max(0, k - nstep + 1), capacity): 0 through the first nstep - 1
\* pushes, 1 after the nstep-th, one more for every later push until full.
\* The window holds min(k, nstep) entries: never more than nstep, and nstep
\* from the nstep-th push on.
C10_NstepWindowAndLen ==
    (cls = "RainbowReplayBuffer" /\ nstep >= 1) =>
        /\ RainbowReplayBuffer_len = Min(Max(0, pushes - nstep + 1), capacity)
        /\ Len(nstep_buffer) = Min(pushes, nstep)
        /\ Len(nstep_buffer) <= nstep

\* a window of depth 2 in front of two slots, after four pushes: three folded
\* transitions were inserted, the third over the first
C10_Witness ==
    /\ cls = "RainbowReplayBuffer"
    /\ nstep = 2
    /\ capacity = 2
    /\ pushes = 4
    /\ RainbowReplayBuffer_len = 2
    /\ Len(nstep_buffer) = 2
    /\ pos = 1

\* the slot the last successful push wrote
LastWritten == (pos + capacity - 1) % capacity

\* a push of a RainbowReplayBuffer that inserted a folded transition
Inserted ==
    /\ cls = "RainbowReplayBuffer"
    /\ capacity >= 1
    /\ nstep >= 1
    /\ ret.op = "push"
    /\ ret.status = "ok"
    /\ Len(nstep_buffer) = nstep

\* equality of two fractions <<numerator, denominator>>
FracEq(x, y) == x[1] * y[2] = y[1] * x[2]

\* the n-step return of window[i ..] with discount g tenths, as a fraction:
\* G(n) = r(n), G(i) = r(i) + g * G(i + 1) * (1 - done(i))
RECURSIVE NstepReturn(_, _, _)
NstepReturn(window, i, g) ==
    IF i >= Len(window) THEN <<window[i][3], 1>>
    ELSE LET rest == NstepReturn(window, i + 1, g)
         IN  << window[i][3] * rest[2] * 10
                  + g * rest[1] * (IF window[i][5] THEN 0 ELSE 1),
                rest[2] * 10 >>

\* C11: the reward RainbowReplayBuffer stores for a full window is the n-step
\* return computed with the discount factor gamma, a configuration option
\* independent of alpha (gamma = 0.9 in the specification's scenario).
C11_StoredRewardIsGammaReturn ==
    Inserted => FracEq(At(memory, LastWritten)[3], NstepReturn(nstep_buffer, 1, 9))

\* the entries of the window whose done flag is set
Terminal(window) == { i \in 1 .. Len(window) : window[i][5] }

\* the window entry that ends the folded transition: the earliest terminal
\* one, or the most recent one when none is terminal
Ending(window) ==
    IF Terminal(window) = {} THEN window[Len(window)]
    ELSE window[CHOOSE i \in Terminal(window) : \A j \in Terminal(window) : i <= j]

\* C12: the transition RainbowReplayBuffer stores for a full window has done
\* and next_state of the earliest terminal window entry, or of the most
\* recent entry when none is terminal; its done is true exactly when some
\* entry of the window is terminal.
C12_StoredDoneIsFirstTermination ==
    Inserted =>
        /\ At(memory, LastWritten)[4] = Ending(nstep_buffer)[4]
        /\ At(memory, LastWritten)[5] = Ending(nstep_buffer)[5]
        /\ At(memory, LastWritten)[5] = (Terminal(nstep_buffer) # {})

Prioritized == cls \in {"PriortizedReplayBuffer", "RainbowReplayBuffer"}

\* C13: in PriortizedReplayBuffer and RainbowReplayBuffer a successful sample
\* sets beta to min(1.0, beta + beta_increment) and every other call (push,
\* update_priorities, a failing sample) leaves beta as it is; for a beta in
\* [0, 1] and a non-negative increment beta never decreases, never exceeds
\* 1.0 and stays at 1.0 once there.
C13_BetaAnnealsToOne ==
    [][Prioritized =>
          /\ IF ret'.op = "sample" /\ ret'.status = "ok"
             THEN beta' = (IF beta + beta_increment <= 10
                           THEN beta + beta_increment ELSE 10)
             ELSE beta' = beta
          /\ (beta \in 0 .. 10 /\ beta_increment >= 0) =>
                 /\ beta <= beta'
                 /\ beta' <= 10
                 /\ beta = 10 => beta' = 10]_vars

\* a sample raised beta from its default 0.4 to 0.7
C13_Witness ==
    /\ Prioritized
    /\ ret.op = "sample"
    /\ ret.status = "ok"
    /\ beta_increment = 3
    /\ beta = 7

\* the value of a weight [num, den, exp] is (num / den) ** (exp / 100)
AtMostOne(w) == (w.exp >= 0 /\ w.num <= w.den) \/ (w.exp <= 0 /\ w.num >= w.den)

ExactlyOne(w) == w.exp = 0 \/ w.num = w.den

\* C14: every importance weight a successful PriortizedReplayBuffer.sample
\* returns is at most 1.0, and the largest weight of each batch is exactly 1.0.
C14_WeightsNormalizedToOne ==
    (cls = "PriortizedReplayBuffer" /\ ret.op = "sample" /\ ret.status = "ok") =>
        /\ Len(ret.weights) = ret.arg
        /\ \A k \in 1 .. Len(ret.weights) : AtMostOne(ret.weights[k])
        /\ \E k \in 1 .. Len(ret.weights) : ExactlyOne(ret.weights[k])

\* a batch of two draws of different priority: one weight is 1.0, one below
C14_Witness ==
    /\ cls = "PriortizedReplayBuffer"
    /\ ret.op = "sample"
    /\ ret.status = "ok"
    /\ Len(ret.weights) = 2
    /\ ret.weights[1].num < ret.weights[1].den
    /\ ExactlyOne(ret.weights[2])

\* what PriortizedReplayBuffer.push(x) makes of the store <<memory,
\* priorities, pos, beta>>
PushedStore(x) ==
    IF Len(memory) < capacity \/ pos < Len(memory)
    THEN << ring_write(memory, capacity, pos, x),
            SetAt(priorities, pos, max_prior(memory, priorities)),
            next_pos(pos, capacity), beta >>
    ELSE <<memory, priorities, pos, beta>>

\* a push step hands a transition to the store: PriortizedReplayBuffer on
\* every push, RainbowReplayBuffer once its window holds nstep entries
Emits ==
    \/ cls = "PriortizedReplayBuffer"
    \/ cls = "RainbowReplayBuffer" /\ nstep_buffer' # <<>> /\ Len(nstep_buffer') = nstep

\* the step is the step PriortizedReplayBuffer takes from the same store for
\* the same call: the push of the emitted transition, the sample with the
\* same outcome, the update that writes the pairs up to the first index
\* numpy rejects
PrioritizedStoreStep ==
    CASE pushes' = pushes + 1 ->
            IF Emits
            THEN /\ <<memory', priorities', pos', beta'>> = PushedStore(At(memory', pos))
                 /\ ret'.status = "ok" <=> (Len(memory) < capacity \/ pos < Len(memory))
            ELSE UNCHANGED <<memory, priorities, pos, beta>>
      [] ret'.op = "sample" ->
            LET prs == priorties(memory, priorities, capacity, pos)
                draws == np_random_choice(Len(memory), ret'.arg, prs)
            IN  /\ UNCHANGED <<memory, priorities, pos>>
                /\ IF draws = {} \/ ret'.arg = 0
                   THEN ret'.status = "ValueError" /\ beta' = beta
                   ELSE /\ ret'.status = "ok"
                        /\ ret'.indices \in draws
                        /\ ret'.batch = [i \in 1 .. ret'.arg |-> At(memory, ret'.indices[i])]
                        /\ ret'.weights = is_weights(prs, ret'.indices, alpha, beta)
                        /\ beta' = anneal(beta, beta_increment)
      [] ret'.op = "update_priorities" ->
            LET n == Len(priorities)
                applied == { i \in DOMAIN ret'.indices :
                               \A j \in 1 .. i : InRange(ret'.indices[j], n) }
                written == { Wrap(ret'.indices[i], n) : i \in applied }
            IN  /\ UNCHANGED <<memory, pos, beta>>
                /\ ret'.status = "ok" <=> applied = DOMAIN ret'.indices
                /\ Len(priorities') = n
                /\ \A slot \in 0 .. n - 1 :
                      IF slot \in written THEN At(priorities', slot) \in PriorVals
                      ELSE At(priorities', slot) = At(priorities, slot)
      [] OTHER -> FALSE

Cleared(prios, n) == [i \in 1 .. Len(prios) |-> IF i <= n THEN prios[i] ELSE 0]

\* C16: with update indices in [0, capacity), the value held by a slot at
\* index >= len() never influences the priority a later push stores nor the
\* priorities a later sample normalizes: both are what they would be with
\* those slots cleared.
C16_StaleSlotsNeverRead ==
    [][(cls = "PriortizedReplayBuffer" /\ capacity >= 1) =>
          /\ priorties(memory, priorities, capacity, pos)
                = priorties(memory, Cleared(priorities, Len(memory)), capacity, pos)
          /\ (pushes' = pushes + 1 /\ ret'.status = "ok") =>
                 At(priorities', pos)
                   = max_prior(memory, Cleared(priorities, Len(memory)))]_vars

\* C17: PriortizedReplayBuffer.sample never changes the stored transitions,
\* the priority array or pos: a successful sample changes only beta and a
\* failing sample changes nothing; the priority of a slot changes only by
\* update_priorities and, for the slot it writes, by push.
C17_SampleChangesOnlyBeta ==
    [][cls = "PriortizedReplayBuffer" =>
          /\ ret'.op = "sample" =>
                 /\ UNCHANGED <<capacity, alpha, beta_increment, memory, priorities, pos>>
                 /\ ret'.status # "ok" => UNCHANGED beta
          /\ \A i \in 0 .. Len(priorities) - 1 :
                 At(priorities', i) # At(priorities, i) =>
                     \/ ret'.op = "update_priorities"
                     \/ ret'.op = "push" /\ i = pos]_vars

\* a sample has failed on a buffer that holds transitions and an updated
\* priority, after an earlier sample advanced beta
C17_Witness ==
    /\ cls = "PriortizedReplayBuffer"
    /\ ret.op = "sample"
    /\ ret.status = "ValueError"
    /\ Len(memory) = 2
    /\ At(priorities, 0) = 2
    /\ beta = 7

\* C18: in every state PriortizedReplayBuffer reaches by whole calls to push,
\* sample and update_priorities, the priorities sample normalizes have
\* exactly len() entries (len() = capacity or pos = len()), and every index
\* a successful sample returned lies in [0, len()), so that update_priorities
\* called next with these indices accepts them.
C18_SampleRangeMatchesStore ==
    cls = "PriortizedReplayBuffer" =>
        /\ Len(priorties(memory, priorities, capacity, pos)) = Len(memory)
        /\ Len(memory) = capacity \/ pos = Len(memory)
        /\ (ret.op = "sample" /\ ret.status = "ok") =>
               /\ \A k \in DOMAIN ret.indices : ret.indices[k] \in 0 .. Len(memory) - 1
               /\ \A prior \in PriorVals :
                     write_all(priorities,
                               [k \in DOMAIN ret.indices |-> <<ret.indices[k], prior>>]).status
                       = "ok"

\* a batch drawn from a buffer that is not yet full
C18_Witness ==
    /\ cls = "PriortizedReplayBuffer"
    /\ ret.op = "sample"
    /\ ret.status = "ok"
    /\ ret.arg = 2
    /\ 0 < Len(memory)
    /\ Len(memory) < capacity

\* what a sample called now would read is consistent: the priorities it
\* normalizes are as many as the stored transitions, and none of them
\* belongs to a slot whose transition still waits for its priority
Consistent ==
    LET prs == priorties(memory, priorities, capacity, pos)
    IN  /\ Len(prs) = Len(memory)
        /\ ~ (running.pc = "appended" /\ pos < Len(prs))

\* C19: when push is not atomic (the transition is appended to memory, then
\* priorities[pos] is written, then pos is advanced), a sample that runs
\* between these steps on a not-yet-full PriortizedReplayBuffer reads an
\* inconsistent store; with push, sample and update_priorities mutually
\* exclusive, no call starts from such a store and no sample reads one.
C19_ExclusiveCallsReadConsistentStore ==
    (cls = "PriortizedReplayBuffer" /\ lock) =>
        /\ running.pc = "idle" => Consistent
        /\ ret.op \in {"sample", "update_priorities"} =>
               running.pc = "idle" /\ Consistent

\* without the lock a sample ran inside a push on a buffer that is not yet
\* full and read fewer priorities than stored transitions
C19_Witness ==
    /\ cls = "PriortizedReplayBuffer"
    /\ ~ lock
    /\ running.pc = "appended"
    /\ Len(memory) <= capacity
    /\ pos = Len(memory) - 1
    /\ ~ Consistent
    /\ ret.op = "sample"
    /\ ret.arg = 1
    /\ ret.status = "ValueError"

\* C20: every row ReplayBuffer.sample returns holds, field by field, the
\* values pushed into the slot it was drawn from: state, action, reward,
\* next_state, done and next_action; in particular the returned next_actions
\* entry is the pushed next_action.
C20_SampleReturnsPushedFields ==
    (cls = "ReplayBuffer" /\ ret.op = "sample" /\ ret.status = "ok") =>
        \A i \in 1 .. ret.arg :
            \A f \in 1 .. 6 : ret.batch[i][f] = At(buffer, ret.indices[i])[f]

====
